---- MODULE Spec2Model ----
(***************************************************************************)
(* The generation loop of environments.py (Environment, Sequential) and    *)
(* its composites (Adversarial, ChronologicalEnvironment,                  *)
(* AdaptiveEnvironment) as a state machine.                                *)
(*                                                                         *)
(* A candidate is modelled by its fitness value (the only thing the loop   *)
(* reads of it); a population and a history are Python list objects, kept  *)
(* in a heap so that two attributes naming the same list stay aliases.     *)
(* A Stage or callback is an external collaborator: it may leave any       *)
(* population in the list it is given, and may call deactivate().          *)
(***************************************************************************)
EXTENDS Integers, Sequences, FiniteSets, TLC

\* ---------------------------------------------------------------- bounds
MaxPop == 1        \* a Stage or callback leaves at most MaxPop candidates
MaxHist == 2       \* evolve(N) is called while the history stays within MaxHist
NumLayers == 2     \* Stages configured in an Environment
NumEnvs == 2       \* base environments that exist

None == "None"
\* a nullable attribute: <<>> is Python's None, <<x>> holds x
Null == <<>>
Some(x) == <<x>>
Get(o) == o[1]
\* the fitness values candidates take: a negative one, zero, a positive one
Fitness == {0 - 1, 0, 1}
SeqsUpTo(S, n) == UNION {[1 .. k -> S] : k \in 0 .. n}
Pops == SeqsUpTo(Fitness, MaxPop)
Gens == 0 .. MaxHist

EnvNames == <<"e1", "e2", "e3", "e4">>
Envs == {EnvNames[k] : k \in 1 .. NumEnvs}
Subject == EnvNames[1]

ListIds == 1 .. (2 * NumEnvs + 6)

Last(s) == s[Len(s)]
MaxOf(a, b) == IF a >= b THEN a ELSE b

VARIABLES
    heap,     \* list objects: ListIds -> sequence (population or history)
    envs,     \* the Environment objects, by name
    stack,    \* frames of the calls in progress, innermost last
    ret,      \* what the last finished top-level call returned or raised
    comp,     \* the composite environment's own attributes and locals
    obs       \* observations of the run, read by the properties only

vars == <<heap, envs, stack, ret, comp, obs>>

\* ------------------------------------------------------------ the heap
Roots(es, r, c) ==
    {es[e].individuals : e \in Envs} \cup {es[e].history : e \in Envs}
        \cup r.refs \cup c.refs

\* the lists still referenced once `e` drops the attributes in `dropped`
RootsWithout(e, dropped) ==
    {envs[x].individuals : x \in {y \in Envs : y # e \/ "individuals" \notin dropped}}
        \cup {envs[x].history : x \in {y \in Envs : y # e \/ "history" \notin dropped}}
        \cup comp.refs

\* the list object a `[]` or a caller's list literal creates
Fresh(used) == CHOOSE i \in ListIds : i \notin used /\ \A j \in ListIds : j \notin used => i <= j

\* unreachable list objects are dropped
Collect(h, roots) == [i \in ListIds |-> IF i \in roots THEN h[i] ELSE <<>>]

NoRet == [kind |-> "none", refs |-> {}]
NoComp == [kind |-> "none", refs |-> {}]

\* ------------------------------------------------- Environment.__init__
NewEnv(k) ==
    [ name |-> EnvNames[k],
      fitness_function |-> None,
      generations |-> 0,
      verbose_every |-> 1,
      callback |-> None,
      individuals |-> 2 * k - 1,
      iteration |-> 0,
      history |-> 2 * k,
      compiled |-> FALSE,
      deactivated |-> FALSE,
      best_ever |-> Null ]

IndexOf(e) == CHOOSE k \in 1 .. NumEnvs : EnvNames[k] = e

InitEnvs == [e \in Envs |-> NewEnv(IndexOf(e))]

\* what is observed of one top-level evolve call
NoCall ==
    [ env |-> None, n |-> 0, pre |-> <<>>, reps |-> <<>>, started |-> 0, ran |-> 0,
      wasDeactivated |-> FALSE, fromReset |-> FALSE, bestAfter |-> Null,
      snap |-> Null ]

\* what is observed of the sub-environments during one composite call
NoSub ==
    [ n |-> 0, pre |-> <<>>, order |-> <<>>, gens |-> [e \in Envs |-> 0], dur |-> [e \in Envs |-> 0],
      log |-> <<>>, calls |-> 0,    \* calls: 0, 1, or 2 for "more than one"
      trials |-> <<>>, weak |-> {} ]

InitObs ==
    [ call |-> NoCall, last |-> "none", sub |-> NoSub, before |-> Null, life |-> 0,
      maxRep |-> [e \in Envs |-> Null],
      afterReset |-> [e \in Envs |-> FALSE],
      everDeactivated |-> [e \in Envs |-> FALSE] ]

Idle == stack = <<>>
Top == stack[Len(stack)]
Pop(s) == SubSeq(s, 1, Len(s) - 1)
SetTop(s, f) == [s EXCEPT ![Len(s)] = f]

Population(e) == heap[envs[e].individuals]
History(e) == heap[envs[e].history]

\* everything the claims call "the state of the Environment"
Snapshot(e) ==
    [ popref |-> envs[e].individuals, pop |-> Population(e),
      histref |-> envs[e].history, hist |-> History(e),
      iteration |-> envs[e].iteration, generations |-> envs[e].generations,
      best_ever |-> envs[e].best_ever ]

\* ------------------------------------------------------------ pure steps
\* execute, line 123: the generation's representative fitness
Representative(pop) == pop[Len(pop)]

BestEverLatest(best, fitness) == Some(fitness)

\* execute, lines 124-128: the best-ever snapshot after a generation
BestEverAfter(best, fitness) ==
    IF best # Null
    THEN IF fitness > Get(best) THEN Some(fitness) ELSE best
    ELSE Some(fitness)

HistoryAfterChange(hist, fitness) ==
    IF hist # <<>> /\ hist[Len(hist)] = fitness THEN hist ELSE Append(hist, fitness)

\* execute, line 132: self.history.append(fitness)
HistoryAfter(hist, fitness) == Append(hist, fitness)

\* get_fitness_metric
get_fitness_metric(e) == IF envs[e].best_ever # Null THEN Get(envs[e].best_ever) ELSE 0

EvolveFrame(e, n) == [op |-> "evolve", env |-> e, n |-> n, i |-> 0, j |-> 0, phase |-> "entry"]

TupleRet(e) ==
    [kind |-> "tuple", individuals |-> envs[e].individuals, history |-> envs[e].history,
     refs |-> {envs[e].individuals, envs[e].history}]
ListRet(e) ==
    [kind |-> "list", individuals |-> envs[e].individuals, refs |-> {envs[e].individuals}]
RaiseRet(exc) == [kind |-> "raise", exc |-> exc, refs |-> {}]

InEvolve(phase) == stack # <<>> /\ Top.op = "evolve" /\ Top.phase = phase

\* ------------------------------------------------------- user operations
\* Environment.compile / Sequential.compile
Compile(e, ff, inds, cb, ve) ==
    /\ Idle
    /\ LET l == Fresh(RootsWithout(e, {"individuals"}))
           es == [envs EXCEPT ![e] = [@ EXCEPT !.fitness_function = ff,
                                               !.individuals = l,
                                               !.compiled = TRUE,
                                               !.callback = cb,
                                               !.verbose_every = ve]]
       IN /\ envs' = es
          /\ heap' = Collect([heap EXCEPT ![l] = IF inds = Null THEN <<>> ELSE Get(inds)],
                             Roots(es, NoRet, comp))
    /\ ret' = NoRet
    /\ obs' = [obs EXCEPT !.call = NoCall, !.last = "compile", !.before = Null]
    /\ UNCHANGED <<stack, comp>>

\* Environment.deactivate
Deactivate(e) ==
    /\ Idle
    /\ envs' = [envs EXCEPT ![e].deactivated = TRUE]
    /\ obs' = [obs EXCEPT !.everDeactivated[e] = TRUE, !.call = NoCall, !.last = "deactivate"]
    /\ ret' = NoRet
    /\ heap' = Collect(heap, Roots(envs, NoRet, comp))
    /\ UNCHANGED <<stack, comp>>

ResetKeepsHistory(e) ==
    /\ Idle
    /\ LET l1 == Fresh(RootsWithout(e, {"individuals"}))
           es == [envs EXCEPT ![e] = [@ EXCEPT !.individuals = l1, !.iteration = 0]]
       IN /\ envs' = es
          /\ heap' = Collect([heap EXCEPT ![l1] = <<>>], Roots(es, NoRet, comp))
    /\ ret' = NoRet
    /\ obs' = [obs EXCEPT !.afterReset[e] = TRUE, !.call = NoCall, !.last = "reset"]
    /\ UNCHANGED <<stack, comp>>

ResetClearsBest(e) ==
    /\ Idle
    /\ LET l1 == Fresh(RootsWithout(e, {"individuals", "history"}))
           l2 == Fresh(RootsWithout(e, {"individuals", "history"}) \cup {l1})
           es == [envs EXCEPT ![e] = [@ EXCEPT !.individuals = l1,
                                               !.history = l2,
                                               !.iteration = 0,
                                               !.best_ever = Null]]
       IN /\ envs' = es
          /\ heap' = Collect([heap EXCEPT ![l1] = <<>>, ![l2] = <<>>], Roots(es, NoRet, comp))
    /\ ret' = NoRet
    /\ obs' = [obs EXCEPT !.afterReset[e] = TRUE, !.call = NoCall, !.last = "reset"]
    /\ UNCHANGED <<stack, comp>>

\* Sequential.reset
Reset(e) ==
    /\ Idle
    /\ LET l1 == Fresh(RootsWithout(e, {"individuals", "history"}))
           l2 == Fresh(RootsWithout(e, {"individuals", "history"}) \cup {l1})
           es == [envs EXCEPT ![e] = [@ EXCEPT !.individuals = l1,
                                               !.history = l2,
                                               !.iteration = 0]]
       IN /\ envs' = es
          /\ heap' = Collect([heap EXCEPT ![l1] = <<>>, ![l2] = <<>>], Roots(es, NoRet, comp))
    /\ ret' = NoRet
    /\ obs' = [obs EXCEPT !.afterReset[e] = TRUE, !.call = NoCall, !.last = "reset"]
    /\ UNCHANGED <<stack, comp>>

\* the caller's `env.evolve(n)`
CallEvolve(e, n) ==
    /\ Idle
    /\ Len(History(e)) + n <= MaxHist
    /\ stack' = <<EvolveFrame(e, n)>>
    /\ ret' = NoRet
    /\ heap' = Collect(heap, Roots(envs, NoRet, comp))
    /\ obs' = [obs EXCEPT !.afterReset[e] = FALSE, !.last = "evolve",
                          !.call = [ env |-> e, n |-> n, pre |-> History(e), reps |-> <<>>,
                                     started |-> 0, ran |-> 0,
                                     wasDeactivated |-> obs.everDeactivated[e],
                                     fromReset |-> obs.afterReset[e],
                                     bestAfter |-> envs[e].best_ever,
                                     snap |-> IF obs.everDeactivated[e]
                                              THEN Some(Snapshot(e)) ELSE Null ]]
    /\ UNCHANGED <<envs, comp>>

\* ---------------------------------------------------- Environment.evolve
EvolveDeactivatedLate ==
    /\ InEvolve("entry")
    /\ envs[Top.env].deactivated
    /\ envs' = [envs EXCEPT ![Top.env].generations = Top.n]
    /\ stack' = Pop(stack)
    /\ ret' = ListRet(Top.env)
    /\ UNCHANGED <<heap, comp, obs>>

\* lines 99-100: a deactivated environment returns its population
EvolveDeactivated ==
    /\ InEvolve("entry")
    /\ envs[Top.env].deactivated
    /\ stack' = Pop(stack)
    /\ ret' = ListRet(Top.env)
    /\ UNCHANGED <<heap, envs, comp, obs>>

\* line 101: self.generations = generations
EvolveStart ==
    /\ InEvolve("entry")
    /\ ~envs[Top.env].deactivated
    /\ envs' = [envs EXCEPT ![Top.env].generations = Top.n]
    /\ stack' = SetTop(stack, [Top EXCEPT !.phase = "head"])
    /\ UNCHANGED <<heap, ret, comp, obs>>

LoopNextIncrement ==
    /\ InEvolve("head")
    /\ Top.i < Top.n
    /\ envs' = [envs EXCEPT ![Top.env].iteration = @ + 1]
    /\ stack' = SetTop(stack, [Top EXCEPT !.phase = "layers", !.j = 1])
    /\ obs' = [obs EXCEPT !.call.started = IF obs.call.env = Top.env THEN @ + 1 ELSE @]
    /\ UNCHANGED <<heap, ret, comp>>

\* lines 102-103: the next turn of the loop sets self.iteration = i
LoopNext ==
    /\ InEvolve("head")
    /\ Top.i < Top.n
    /\ envs' = [envs EXCEPT ![Top.env].iteration = Top.i]
    /\ stack' = SetTop(stack, [Top EXCEPT !.phase = "layers", !.j = 1])
    /\ obs' = [obs EXCEPT !.call.started = IF obs.call.env = Top.env THEN @ + 1 ELSE @]
    /\ UNCHANGED <<heap, ret, comp>>

EvolveReturnWhenDeactivated ==
    /\ InEvolve("head")
    /\ (Top.i >= Top.n \/ envs[Top.env].deactivated)
    /\ stack' = Pop(stack)
    /\ ret' = TupleRet(Top.env)
    /\ UNCHANGED <<heap, envs, comp, obs>>

\* line 105: return self.individuals, self.history
EvolveReturn ==
    /\ InEvolve("head")
    /\ Top.i >= Top.n
    /\ stack' = Pop(stack)
    /\ ret' = TupleRet(Top.env)
    /\ UNCHANGED <<heap, envs, comp, obs>>

\* --------------------------------------------------- Environment.execute
\* lines 117-118: a_layer.run(self.individuals, self), one Stage per step
RunLayer ==
    /\ InEvolve("layers")
    /\ \E p \in Pops, d \in BOOLEAN :
          /\ heap' = [heap EXCEPT ![envs[Top.env].individuals] = p]
          /\ envs' = [envs EXCEPT ![Top.env].deactivated = @ \/ d]
          /\ obs' = [obs EXCEPT !.call.ran = IF obs.call.env = Top.env THEN @ + 1 ELSE @,
                                !.everDeactivated[Top.env] = @ \/ d]
    /\ stack' = SetTop(stack, IF Top.j < NumLayers
                              THEN [Top EXCEPT !.j = @ + 1]
                              ELSE [Top EXCEPT !.phase = "callback"])
    /\ UNCHANGED <<ret, comp>>

RunCallbackUnlessEmpty ==
    /\ InEvolve("callback")
    /\ envs[Top.env].callback # None
    /\ IF Population(Top.env) = <<>>
       THEN UNCHANGED <<heap, envs, obs>>
       ELSE \E p \in Pops, d \in BOOLEAN :
               /\ heap' = [heap EXCEPT ![envs[Top.env].individuals] = p]
               /\ envs' = [envs EXCEPT ![Top.env].deactivated = @ \/ d]
               /\ obs' = [obs EXCEPT !.call.ran = IF obs.call.env = Top.env THEN @ + 1 ELSE @,
                                     !.everDeactivated[Top.env] = @ \/ d]
    /\ stack' = SetTop(stack, [Top EXCEPT !.phase = "check"])
    /\ UNCHANGED <<ret, comp>>

\* lines 119-120: the callback, when one is configured
RunCallback ==
    /\ InEvolve("callback")
    /\ envs[Top.env].callback # None
    /\ \E p \in Pops, d \in BOOLEAN :
          /\ heap' = [heap EXCEPT ![envs[Top.env].individuals] = p]
          /\ envs' = [envs EXCEPT ![Top.env].deactivated = @ \/ d]
          /\ obs' = [obs EXCEPT !.call.ran = IF obs.call.env = Top.env THEN @ + 1 ELSE @,
                                !.everDeactivated[Top.env] = @ \/ d]
    /\ stack' = SetTop(stack, [Top EXCEPT !.phase = "check"])
    /\ UNCHANGED <<ret, comp>>

SkipCallback ==
    /\ InEvolve("callback")
    /\ envs[Top.env].callback = None
    /\ stack' = SetTop(stack, [Top EXCEPT !.phase = "check"])
    /\ UNCHANGED <<heap, envs, ret, comp, obs>>

RaiseEmptySwallowed ==
    /\ InEvolve("check")
    /\ Len(Population(Top.env)) = 0
    /\ stack' = SetTop(stack, [Top EXCEPT !.phase = "head", !.i = @ + 1])
    /\ UNCHANGED <<heap, envs, ret, comp, obs>>

\* lines 121-122: raise NoIndividualsAtEndOfRun; nothing catches it
RaiseEmpty ==
    /\ InEvolve("check")
    /\ Len(Population(Top.env)) = 0
    /\ stack' = <<>>
    /\ ret' = RaiseRet("NoIndividualsAtEndOfRun")
    /\ UNCHANGED <<heap, envs, comp, obs>>

\* lines 123-132: best-ever and history of a generation that kept candidates
RecordGeneration ==
    /\ InEvolve("check")
    /\ Len(Population(Top.env)) # 0
    /\ LET e == Top.env
           fitness == Representative(Population(e))
           best == BestEverAfter(envs[e].best_ever, fitness)
       IN /\ envs' = [envs EXCEPT ![e].best_ever = best]
          /\ heap' = [heap EXCEPT ![envs[e].history] = HistoryAfter(@, fitness)]
          /\ obs' = [obs EXCEPT !.call.reps = IF obs.call.env = e
                                               THEN Append(@, Last(Population(e))) ELSE @,
                                !.sub.gens[e] = IF stack[1].op = "evolve" THEN @ ELSE @ + 1,
                                !.life = IF stack[1].op = "adaptive" THEN @ + 1 ELSE @,
                                !.sub.log = IF stack[1].op = "evolve" THEN @
                                            ELSE Append(@, Last(Population(e))),
                                !.call.bestAfter = IF obs.call.env = e THEN best ELSE @,
                                !.maxRep[e] = IF @ = Null THEN Some(Last(Population(e)))
                                              ELSE Some(MaxOf(Get(@), Last(Population(e))))]
    /\ stack' = SetTop(stack, [Top EXCEPT !.phase = "head", !.i = @ + 1])
    /\ UNCHANGED <<ret, comp>>

EvolveStep ==
    \/ EvolveDeactivated
    \/ EvolveStart
    \/ LoopNext
    \/ EvolveReturn
    \/ RunLayer
    \/ RunCallback
    \/ SkipCallback
    \/ RaiseEmpty
    \/ RecordGeneration

\* ------------------------------------------- one Sequential environment
FitFns == {"f"}
Callbacks == {None, "cb"}

Init ==
    /\ envs = InitEnvs
    /\ heap = [i \in ListIds |-> <<>>]
    /\ stack = <<>>
    /\ ret = NoRet
    /\ comp = NoComp
    /\ obs = InitObs

Next ==
    \/ \E inds \in {Null} \cup {Some(p) : p \in Pops}, cb \in Callbacks : Compile(Subject, "f", inds, cb, 1)
    \/ Deactivate(Subject)
    \/ Reset(Subject)
    \/ \E n \in Gens : CallEvolve(Subject, n)
    \/ EvolveStep

Spec == Init /\ [][Next]_vars

\* ------------------------------------------------------ Adversarial
\* Adversarial.__init__: self.environments, in list order
environments == [k \in 1 .. NumEnvs |-> EnvNames[k]]

\* wall-clock durations a run may be measured to take
Durations == {1, 2}

InComp(op, phase) == stack # <<>> /\ Top.op = op /\ Top.phase = phase

BestOfLast(results) ==
    LET best == CHOOSE k \in 1 .. Len(results) :
                   /\ \A j \in 1 .. Len(results) : results[j][2] <= results[k][2]
                   /\ \A j \in (k + 1) .. Len(results) : results[j][2] < results[k][2]
    IN results[best]

\* the first element of `results` with the largest x[1], as max(results, key=...) finds it
BestOf(results) ==
    LET best == CHOOSE k \in 1 .. Len(results) :
                   /\ \A j \in 1 .. Len(results) : results[j][2] <= results[k][2]
                   /\ \A j \in 1 .. (k - 1) : results[j][2] < results[k][2]
    IN results[best]

\* the sub-environments as constructed; the first one was compiled with a callback
PoolEnvs ==
    [e \in Envs |-> IF e = environments[1]
                    THEN [InitEnvs[e] EXCEPT !.callback = "cb", !.compiled = TRUE,
                                             !.fitness_function = "f"]
                    ELSE InitEnvs[e]]

\* the list objects the composite's own self.individuals and self.history name
CompList == 2 * NumEnvs + 1
CompHist == 2 * NumEnvs + 2

\* Environment.__init__ of a composite: the attributes the composites use
CompBase ==
    [ fitness_function |-> None,
      verbose_every |-> 1,
      callback |-> None,
      individuals |-> CompList,
      iteration |-> 0,
      history |-> CompHist,
      compiled |-> FALSE,
      refs |-> {CompList, CompHist} ]

\* Adversarial.__init__
InitAdversarial == [kind |-> "adversarial"] @@ CompBase

\* the caller's `adversarial.evolve(n)`
CallAdversarial(n) ==
    /\ Idle
    /\ \A e \in Envs : Len(History(e)) + n <= MaxHist
    /\ stack' = <<[op |-> "adversarial", n |-> n, k |-> 1, results |-> <<>>, phase |-> "loop"]>>
    /\ ret' = NoRet
    /\ heap' = Collect(heap, Roots(envs, NoRet, comp))
    /\ obs' = [obs EXCEPT !.call = NoCall, !.last = "adversarial", !.sub = [NoSub EXCEPT !.n = n]]
    /\ UNCHANGED <<envs, comp>>

\* lines 207-209: env.evolve(generations) on the next sub-environment
AdversarialInvoke ==
    /\ InComp("adversarial", "loop")
    /\ Top.k <= Len(environments)
    /\ stack' = Append(SetTop(stack, [Top EXCEPT !.phase = "await"]),
                       EvolveFrame(environments[Top.k], Top.n))
    /\ obs' = [obs EXCEPT !.sub.order = Append(@, environments[Top.k])]
    /\ UNCHANGED <<heap, envs, ret, comp>>

\* line 209: a deactivated sub-environment returned its population, a list, which
\* does not unpack into (individuals, history)
AdversarialUnpackFails ==
    /\ InComp("adversarial", "await")
    /\ ret.kind = "list"
    /\ stack' = <<>>
    /\ ret' = RaiseRet(IF Len(heap[ret.individuals]) = 2 THEN "TypeError" ELSE "ValueError")
    /\ UNCHANGED <<heap, envs, comp, obs>>

\* line 212: history[-1] of an empty history
AdversarialNoHistory ==
    /\ InComp("adversarial", "await")
    /\ ret.kind = "tuple"
    /\ heap[ret.history] = <<>>
    /\ stack' = <<>>
    /\ ret' = RaiseRet("IndexError")
    /\ heap' = Collect(heap, Roots(envs, NoRet, comp))
    /\ UNCHANGED <<envs, comp, obs>>

\* lines 210-215: the run's (name, final fitness, duration), then the callback
AdversarialCollect ==
    /\ InComp("adversarial", "await")
    /\ ret.kind = "tuple"
    /\ heap[ret.history] # <<>>
    /\ LET e == environments[Top.k]
           history == heap[ret.history]
       IN \E t \in Durations :
             /\ stack' = SetTop(stack, [Top EXCEPT !.results = Append(@, <<envs[e].name, history[Len(history)], t>>),
                                                   !.k = @ + 1,
                                                   !.phase = "loop"])
             /\ obs' = [obs EXCEPT !.sub.dur[e] = t]
             /\ IF comp.callback # None
                THEN \E p \in Pops : heap' = Collect([heap EXCEPT ![ret.individuals] = p],
                                                     Roots(envs, NoRet, comp))
                ELSE heap' = Collect(heap, Roots(envs, NoRet, comp))
    /\ ret' = NoRet
    /\ UNCHANGED <<envs, comp>>

\* lines 219-224: the best result is returned
AdversarialReturn ==
    /\ InComp("adversarial", "loop")
    /\ Top.k > Len(environments)
    /\ stack' = <<>>
    /\ ret' = [kind |-> "result", value |-> BestOf(Top.results), refs |-> {}]
    /\ UNCHANGED <<heap, envs, comp, obs>>

InitAdv ==
    /\ envs = PoolEnvs
    /\ heap = [i \in ListIds |-> <<>>]
    /\ stack = <<>>
    /\ ret = NoRet
    /\ \E cb \in Callbacks : comp = [InitAdversarial EXCEPT !.callback = cb]
    /\ obs = InitObs

NextAdv ==
    \/ \E n \in Gens : CallAdversarial(n)
    \/ \E e \in Envs : Deactivate(e)
    \/ AdversarialInvoke
    \/ AdversarialUnpackFails
    \/ AdversarialNoHistory
    \/ AdversarialCollect
    \/ AdversarialReturn
    \/ EvolveStep

SpecAdversarial == InitAdv /\ [][NextAdv]_vars

\* ------------------------------------------- ChronologicalEnvironment
\* generation counts a stage may be configured with: None, or a number
StageGens == {Null, Some(1)}
StageLists == UNION {[1 .. k -> Envs \X StageGens] : k \in 1 .. NumEnvs}

\* ChronologicalEnvironment.__init__
InitChronological(stages) ==
    [ kind |-> "chronological",
      environments_and_generations |-> stages,
      combined_history |-> <<>>,
      best_environment |-> Null ] @@ CompBase

\* lines 272-275: a stage without a count runs for the caller's `generations`
GenerationsHere(stage, generations) ==
    IF stage[2] = Null THEN generations ELSE Get(stage[2])

RECURSIVE SumGenerations(_, _, _)
SumGenerations(stages, generations, k) ==
    IF k = 0 THEN 0
    ELSE SumGenerations(stages, generations, k - 1) + GenerationsHere(stages[k], generations)

StageTotal(generations) ==
    SumGenerations(comp.environments_and_generations, generations,
                   Len(comp.environments_and_generations))

\* the caller's `chronological.evolve(n)`
CallChronological(n) ==
    /\ Idle
    /\ Len(comp.combined_history) + StageTotal(n) <= MaxHist + 1
    /\ Len(heap[comp.individuals]) <= 2 * MaxPop
    /\ \A k \in 1 .. Len(comp.environments_and_generations) :
          LET stage == comp.environments_and_generations[k]
          IN Len(History(stage[1])) + GenerationsHere(stage, n) <= MaxHist
    /\ stack' = <<[op |-> "chronological", n |-> n, k |-> 1, phase |-> "loop"]>>
    /\ ret' = NoRet
    /\ heap' = Collect(heap, Roots(envs, NoRet, comp))
    /\ obs' = [obs EXCEPT !.call = NoCall, !.last = "chronological",
                          !.sub = [NoSub EXCEPT !.n = n, !.calls = IF obs.sub.calls = 0 THEN 1 ELSE 2]]
    /\ UNCHANGED <<envs, comp>>

ChronologicalInvokeCopy ==
    /\ InComp("chronological", "loop")
    /\ Top.k <= Len(comp.environments_and_generations)
    /\ LET stage == comp.environments_and_generations[Top.k]
           l == Fresh(RootsWithout(stage[1], {"individuals"}))
           es == [envs EXCEPT ![stage[1]].individuals = l]
       IN /\ envs' = es
          /\ heap' = Collect([heap EXCEPT ![l] = heap[comp.individuals]], Roots(es, NoRet, comp))
          /\ stack' = Append(SetTop(stack, [Top EXCEPT !.phase = "await"]),
                             EvolveFrame(stage[1], GenerationsHere(stage, Top.n)))
          /\ obs' = [obs EXCEPT !.sub.order = Append(@, stage[1])]
    /\ UNCHANGED <<ret, comp>>

\* lines 271-278: the stage-environment is handed self.individuals and evolved
ChronologicalInvoke ==
    /\ InComp("chronological", "loop")
    /\ Top.k <= Len(comp.environments_and_generations)
    /\ LET stage == comp.environments_and_generations[Top.k]
           es == [envs EXCEPT ![stage[1]].individuals = comp.individuals]
       IN /\ envs' = es
          /\ heap' = Collect(heap, Roots(es, NoRet, comp))
          /\ stack' = Append(SetTop(stack, [Top EXCEPT !.phase = "await"]),
                             EvolveFrame(stage[1], GenerationsHere(stage, Top.n)))
          /\ obs' = [obs EXCEPT !.sub.order = Append(@, stage[1])]
    /\ UNCHANGED <<ret, comp>>

\* line 278: a deactivated stage-environment returned a list, which does not unpack
ChronologicalUnpackFails ==
    /\ InComp("chronological", "await")
    /\ ret.kind = "list"
    /\ stack' = <<>>
    /\ ret' = RaiseRet(IF Len(heap[ret.individuals]) = 2 THEN "TypeError" ELSE "ValueError")
    /\ UNCHANGED <<heap, envs, comp, obs>>

AfterStageKeepsHistory(e) ==
    LET c == [comp EXCEPT !.combined_history = @ \o heap[ret.history]]
        h == [heap EXCEPT ![comp.individuals] = @ \o heap[ret.individuals]]
    IN [envs |-> envs, comp |-> c, heap |-> Collect(h, Roots(envs, NoRet, c))]

\* lines 279-281: the stage's history is replaced by a new list, its population
\* and history are appended to the composite's
AfterStage(e) ==
    LET l == Fresh(RootsWithout(e, {"history"}) \cup ret.refs)
        es == [envs EXCEPT ![e].history = l]
        c == [comp EXCEPT !.combined_history = @ \o heap[ret.history]]
        h == [heap EXCEPT ![l] = <<>>,
                          ![comp.individuals] = @ \o heap[ret.individuals]]
    IN [envs |-> es, comp |-> c, heap |-> Collect(h, Roots(es, NoRet, c))]

\* lines 282-283: history[-1] of an empty history
ChronologicalNoHistory ==
    /\ InComp("chronological", "await")
    /\ ret.kind = "tuple"
    /\ heap[ret.history] = <<>>
    /\ LET a == AfterStage(comp.environments_and_generations[Top.k][1])
       IN envs' = a.envs /\ comp' = a.comp /\ heap' = a.heap
    /\ stack' = <<>>
    /\ ret' = RaiseRet("IndexError")
    /\ UNCHANGED obs

\* lines 279-283: the stage is consumed and the best stage so far is kept
ChronologicalCollect ==
    /\ InComp("chronological", "await")
    /\ ret.kind = "tuple"
    /\ heap[ret.history] # <<>>
    /\ LET e == comp.environments_and_generations[Top.k][1]
           a == AfterStage(e)
           history == heap[ret.history]
           final == history[Len(history)]
       IN /\ envs' = a.envs
          /\ heap' = a.heap
          /\ comp' = IF comp.best_environment = Null \/ final > comp.best_environment[2]
                     THEN [a.comp EXCEPT !.best_environment = <<envs[e].name, final>>]
                     ELSE a.comp
    /\ stack' = SetTop(stack, [Top EXCEPT !.k = @ + 1, !.phase = "loop"])
    /\ ret' = NoRet
    /\ UNCHANGED obs

\* line 284: return self.individuals, self.combined_history
ChronologicalReturn ==
    /\ InComp("chronological", "loop")
    /\ Top.k > Len(comp.environments_and_generations)
    /\ stack' = <<>>
    /\ ret' = [kind |-> "combined", individuals |-> comp.individuals,
               history |-> comp.combined_history, refs |-> {comp.individuals}]
    /\ UNCHANGED <<heap, envs, comp, obs>>

InitChrono ==
    /\ envs = PoolEnvs
    /\ heap = [i \in ListIds |-> <<>>]
    /\ stack = <<>>
    /\ ret = NoRet
    /\ \E stages \in StageLists : comp = InitChronological(stages)
    /\ obs = InitObs

NextChrono ==
    \/ \E n \in Gens : CallChronological(n)
    \/ \E e \in Envs : Deactivate(e)
    \/ ChronologicalInvoke
    \/ ChronologicalUnpackFails
    \/ ChronologicalNoHistory
    \/ ChronologicalCollect
    \/ ChronologicalReturn
    \/ EvolveStep

SpecChronological == InitChrono /\ [][NextChrono]_vars

\* ------------------------------------------------- composite compile
\* Environment.compile as the composites call it on a sub-environment:
\* environment.compile(verbose_every=verbose_every) leaves out the required
\* fitness_function, so the call raises TypeError before the body runs
CompileWithoutFitnessFunction(e) == RaiseRet("TypeError")

RECURSIVE FirstUncompiled(_, _)
FirstUncompiled(es, k) ==
    IF k > Len(es) THEN 0
    ELSE IF ~envs[es[k]].compiled THEN k
    ELSE FirstUncompiled(es, k + 1)

\* Adversarial.compile / ChronologicalEnvironment.compile / AdaptiveEnvironment.compile
CompileComposite(ff, inds, cb, ve) ==
    /\ Idle
    /\ LET c == [comp EXCEPT !.fitness_function = ff, !.compiled = TRUE,
                             !.callback = cb, !.verbose_every = ve]
           k == FirstUncompiled(environments, 1)
       IN /\ comp' = c
          /\ heap' = Collect([heap EXCEPT ![comp.individuals] =
                                              IF inds = Null THEN <<>> ELSE Get(inds)],
                             Roots(envs, NoRet, c))
          /\ ret' = IF k = 0 THEN [kind |-> "compiled", refs |-> {}]
                    ELSE CompileWithoutFitnessFunction(environments[k])
    /\ obs' = [obs EXCEPT !.call = NoCall, !.last = "compile_composite",
                          !.before = Some(envs)]
    /\ UNCHANGED <<envs, stack>>

\* a sub-environment compiled by its owner beforehand
CompileSub(e, ff, inds, cb, ve) ==
    /\ Compile(e, ff, inds, cb, ve)

CompositeKinds == {"adversarial", "chronological", "adaptive"}
FitnessFunctions == {"f", "g"}
Intervals == {1, 2}

InitCompile ==
    /\ envs = InitEnvs
    /\ heap = [i \in ListIds |-> <<>>]
    /\ stack = <<>>
    /\ ret = NoRet
    /\ \E kind \in CompositeKinds : comp = [kind |-> kind] @@ CompBase
    /\ obs = InitObs

NextCompile ==
    \/ \E e \in Envs, ff \in FitnessFunctions, cb \in Callbacks, ve \in Intervals :
          CompileSub(e, ff, Null, cb, ve)
    \/ \E ff \in FitnessFunctions, inds \in {Null} \cup {Some(p) : p \in Pops},
          cb \in Callbacks, ve \in Intervals :
          CompileComposite(ff, inds, cb, ve)

SpecCompile == InitCompile /\ [][NextCompile]_vars

\* ------------------------------------------------- AdaptiveEnvironment
\* values the `fitness` attribute of a pool member is read to have
Weights == {0 - 1, 0, 1}

RECURSIVE SumWeights(_, _)
SumWeights(w, k) == IF k = 0 THEN 0 ELSE SumWeights(w, k - 1) + w[environments[k]]

\* random.choices(choices, weights, k=1)[0]: the members it can return; none
\* when the weights do not sum to more than zero (ValueError)
Draw(w) ==
    IF SumWeights(w, NumEnvs) <= 0 THEN {}
    ELSE IF \A e \in Envs : w[e] >= 0 THEN {e \in Envs : w[e] > 0}
    ELSE Envs

\* AdaptiveEnvironment.__init__
InitAdaptive(switch_every) ==
    [ kind |-> "adaptive",
      switch_every |-> switch_every,
      current_environment |-> environments[1],
      current_generation |-> 0,
      go_for |-> 0 ] @@ CompBase

HandOverPopulationOnly(es, new, current) ==
    [es EXCEPT ![new].individuals = es[current].individuals]

\* lines 385-386: the selected environment takes over population and history
HandOver(es, new, current) ==
    [es EXCEPT ![new].individuals = es[current].individuals,
               ![new].history = es[current].history]

DeactivateNone(es, w) == es

\* lines 399-402: pool members whose fitness is below 1 are deactivated
DeactivateWeak(es, w) ==
    [e \in Envs |-> IF w[e] < 1 THEN [es[e] EXCEPT !.deactivated = TRUE] ELSE es[e]]

\* the caller's `adaptive.evolve(n)`
CallAdaptive(n) ==
    /\ Idle
    /\ comp.iteration + n <= MaxHist
    /\ Len(History(comp.current_environment)) + n <= MaxHist
    /\ stack' = <<[op |-> "adaptive", n |-> n, i |-> 0, phase |-> "loop"]>>
    /\ ret' = NoRet
    /\ heap' = Collect(heap, Roots(envs, NoRet, comp))
    /\ obs' = [obs EXCEPT !.call = NoCall, !.last = "adaptive",
                          !.sub = [NoSub EXCEPT !.n = n,
                                                !.pre = History(comp.current_environment),
                                                !.order = <<comp.current_environment>>],
                          !.before = Null]
    /\ UNCHANGED <<envs, comp>>

\* one turn of the loop, lines 382-388, with `new` what smart_evolve returned
AdaptiveTurn(w, new) ==
    LET c == [comp EXCEPT !.iteration = @ + 1, !.current_generation = @ + 1,
                          !.current_environment = new]
        es == HandOver(DeactivateWeak(envs, w), new, comp.current_environment)
    IN /\ comp' = c
       /\ envs' = es
       /\ heap' = Collect(heap, Roots(es, NoRet, c))
       /\ stack' = Append(SetTop(stack, [Top EXCEPT !.phase = "await"]), EvolveFrame(new, 1))
       /\ obs' = [obs EXCEPT !.everDeactivated =
                                 [e \in Envs |-> @[e] \/ w[e] < 1],
                             !.sub.order = Append(@, new),
                             !.sub.weak = {e \in Envs : w[e] < 1}]
       /\ UNCHANGED ret

AdaptiveKeepDraws ==
    /\ InComp("adaptive", "loop")
    /\ Top.i < Top.n
    /\ (comp.iteration + 1) % comp.switch_every # 0
    /\ \E w \in [Envs -> Weights] : \E new \in Draw(w) : AdaptiveTurn(w, new)

\* lines 407-408: between switch points the current environment is kept
AdaptiveKeep ==
    /\ InComp("adaptive", "loop")
    /\ Top.i < Top.n
    /\ (comp.iteration + 1) % comp.switch_every # 0
    /\ \E w \in [Envs -> Weights] : AdaptiveTurn(w, comp.current_environment)

\* lines 403-406: at a switch point a member is drawn by fitness weight
AdaptiveDraw ==
    /\ InComp("adaptive", "loop")
    /\ Top.i < Top.n
    /\ (comp.iteration + 1) % comp.switch_every = 0
    /\ \E w \in [Envs -> Weights] : \E new \in Draw(w) : AdaptiveTurn(w, new)

\* line 406: random.choices raises when the weights sum to zero or less
AdaptiveDrawFails ==
    /\ InComp("adaptive", "loop")
    /\ Top.i < Top.n
    /\ (comp.iteration + 1) % comp.switch_every = 0
    /\ \E w \in [Envs -> Weights] :
          /\ Draw(w) = {}
          /\ envs' = DeactivateWeak(envs, w)
          /\ obs' = [obs EXCEPT !.everDeactivated = [e \in Envs |-> @[e] \/ w[e] < 1],
                                !.sub.weak = {e \in Envs : w[e] < 1}]
    /\ comp' = [comp EXCEPT !.iteration = @ + 1, !.current_generation = @ + 1]
    /\ stack' = <<>>
    /\ ret' = RaiseRet("ValueError")
    /\ UNCHANGED heap

\* line 388: the result of current_environment.evolve(1) is dropped
AdaptiveAfter ==
    /\ InComp("adaptive", "await")
    /\ stack' = SetTop(stack, [Top EXCEPT !.i = @ + 1, !.phase = "loop"])
    /\ ret' = NoRet
    /\ heap' = Collect(heap, Roots(envs, NoRet, comp))
    /\ UNCHANGED <<envs, comp, obs>>

\* line 390: return self.individuals, self.history
AdaptiveReturn ==
    /\ InComp("adaptive", "loop")
    /\ Top.i >= Top.n
    /\ stack' = <<>>
    /\ ret' = [kind |-> "adaptive", individuals |-> comp.individuals,
               history |-> comp.history, refs |-> {comp.individuals, comp.history}]
    /\ UNCHANGED <<heap, envs, comp, obs>>

InitAdapt ==
    /\ envs = PoolEnvs
    /\ \E p \in Pops : heap = [i \in ListIds |-> IF i = CompList THEN p ELSE <<>>]
    /\ stack = <<>>
    /\ ret = NoRet
    /\ \E k \in 1 .. MaxHist : comp = InitAdaptive(k)
    /\ obs = InitObs

NextAdapt ==
    \/ \E n \in Gens : CallAdaptive(n)
    \/ AdaptiveKeep
    \/ AdaptiveDraw
    \/ AdaptiveDrawFails
    \/ AdaptiveAfter
    \/ AdaptiveReturn
    \/ EvolveStep

SpecAdaptive == InitAdapt /\ [][NextAdapt]_vars

\* ------------------------------ AdaptiveEnvironment.switch_environment
\* values of go_for the composite may be constructed with
GoFor == 0 .. 1

BetterGainOrEqual(fitness_increase, max_fitness_increase) ==
    max_fitness_increase = Null \/ fitness_increase >= Get(max_fitness_increase)

\* line 425: fitness_increase > max_fitness_increase, which starts at -inf (Null)
BetterGain(fitness_increase, max_fitness_increase) ==
    max_fitness_increase = Null \/ fitness_increase > Get(max_fitness_increase)

\* the caller's `adaptive.switch_environment()`
CallSwitch ==
    /\ Idle
    /\ \A e \in Envs : Len(History(e)) + comp.go_for <= MaxHist
    /\ stack' = <<[op |-> "switch", k |-> 1, phase |-> "first", first |-> 0,
                   max_fitness_increase |-> Null, best_environment |-> Null]>>
    /\ ret' = NoRet
    /\ heap' = Collect(heap, Roots(envs, NoRet, comp))
    /\ obs' = [obs EXCEPT !.call = NoCall, !.last = "switch",
                          !.sub = [NoSub EXCEPT !.n = comp.go_for,
                                                !.pre = Population(comp.current_environment)],
                          !.before = Null]
    /\ UNCHANGED <<envs, comp>>

\* line 417: individuals[-1] of an empty population
SwitchBaselineFails ==
    /\ InComp("switch", "first")
    /\ Population(comp.current_environment) = <<>>
    /\ stack' = <<>>
    /\ ret' = RaiseRet("IndexError")
    /\ UNCHANGED <<heap, envs, comp, obs>>

\* lines 415-417: the baseline is read once, before the loop
SwitchBaseline ==
    /\ InComp("switch", "first")
    /\ Population(comp.current_environment) # <<>>
    /\ stack' = SetTop(stack, [Top EXCEPT !.first = Last(Population(comp.current_environment)),
                                          !.phase = "loop"])
    /\ UNCHANGED <<heap, envs, ret, comp, obs>>

SwitchInvokeRestored ==
    /\ InComp("switch", "loop")
    /\ Top.k <= Len(environments)
    /\ LET e == environments[Top.k]
           shared == envs[comp.current_environment].individuals
           es == [envs EXCEPT ![e].individuals = shared]
           h == [heap EXCEPT ![shared] = obs.sub.pre]
       IN /\ envs' = es
          /\ heap' = Collect(h, Roots(es, NoRet, comp))
          /\ stack' = Append(SetTop(stack, [Top EXCEPT !.phase = "await"]),
                             EvolveFrame(e, comp.go_for))
          /\ obs' = [obs EXCEPT !.sub.order = Append(@, e),
                                !.sub.trials = Append(@, [start |-> h[shared],
                                                          post |-> <<>>, gain |-> 0,
                                                          deactivated |-> envs[e].deactivated])]
    /\ UNCHANGED <<ret, comp>>

\* lines 418-421: the member is given the active environment's population
\* list and evolved for go_for generations
SwitchInvoke ==
    /\ InComp("switch", "loop")
    /\ Top.k <= Len(environments)
    /\ LET e == environments[Top.k]
           shared == envs[comp.current_environment].individuals
           es == [envs EXCEPT ![e].individuals = shared]
       IN /\ envs' = es
          /\ heap' = Collect(heap, Roots(es, NoRet, comp))
          /\ stack' = Append(SetTop(stack, [Top EXCEPT !.phase = "await"]),
                             EvolveFrame(e, comp.go_for))
          /\ obs' = [obs EXCEPT !.sub.order = Append(@, e),
                                !.sub.trials = Append(@, [start |-> heap[shared],
                                                          post |-> <<>>, gain |-> 0,
                                                          deactivated |-> envs[e].deactivated])]
    /\ UNCHANGED <<ret, comp>>

\* lines 422-427: the gain over the baseline, and the best member so far
SwitchMeasure ==
    /\ InComp("switch", "await")
    /\ LET environment == environments[Top.k]
           new_fitness == Last(Population(environment))
           fitness_increase == new_fitness - Top.first
           better == BetterGain(fitness_increase, Top.max_fitness_increase)
       IN /\ stack' = SetTop(stack,
                 [Top EXCEPT !.max_fitness_increase = IF better THEN Some(fitness_increase) ELSE @,
                             !.best_environment = IF better THEN Some(environment) ELSE @,
                             !.k = @ + 1,
                             !.phase = "loop"])
          /\ obs' = [obs EXCEPT !.sub.trials[Top.k].post = Population(environment),
                                !.sub.trials[Top.k].gain = fitness_increase]
    /\ ret' = NoRet
    /\ heap' = Collect(heap, Roots(envs, NoRet, comp))
    /\ UNCHANGED <<envs, comp>>

\* lines 429-432: the best member becomes the active environment
SwitchSelect ==
    /\ InComp("switch", "loop")
    /\ Top.k > Len(environments)
    /\ IF Top.best_environment # Null
       THEN LET b == Get(Top.best_environment)
                es == [envs EXCEPT ![b].individuals =
                                       envs[comp.current_environment].individuals]
                c == [comp EXCEPT !.current_environment = b]
            IN /\ envs' = es
               /\ comp' = c
               /\ heap' = Collect(heap, Roots(es, NoRet, c))
       ELSE UNCHANGED <<envs, comp, heap>>
    /\ stack' = <<>>
    /\ ret' = [kind |-> "switched", refs |-> {}]
    /\ UNCHANGED obs

InitSwitch ==
    /\ envs = PoolEnvs
    /\ \E p \in Pops :
          heap = [i \in ListIds |-> IF i = PoolEnvs[environments[1]].individuals THEN p ELSE <<>>]
    /\ stack = <<>>
    /\ ret = NoRet
    /\ \E g \in GoFor : comp = [InitAdaptive(1) EXCEPT !.go_for = g]
    /\ obs = InitObs

NextSwitch ==
    \/ CallSwitch
    \/ SwitchBaselineFails
    \/ SwitchBaseline
    \/ SwitchInvoke
    \/ SwitchMeasure
    \/ SwitchSelect
    \/ EvolveStep

SpecSwitch == InitSwitch /\ [][NextSwitch]_vars

\* ------------------------------------------------------------ properties
Returned(kind) == Idle /\ obs.call.env = Subject /\ ret.kind = kind

\* C1: an evolve(N) that returns on an environment that was not deactivated
\* has run exactly N generation steps and has appended, per step and in order,
\* the fitness of the last candidate at the end of that step: the history is
\* the history before the call followed by those N values. While the call is
\* running the history is the earlier history followed by the steps so far.
C1_EvolveAppendsOnePerStep ==
    /\ (obs.call.env = Subject /\ ~obs.call.wasDeactivated) =>
          /\ History(Subject) = obs.call.pre \o obs.call.reps
          /\ Len(obs.call.reps) <= obs.call.n
    /\ Returned("tuple") =>
          /\ obs.call.started = obs.call.n
          /\ Len(obs.call.reps) = obs.call.n
          /\ Len(History(Subject)) = Len(obs.call.pre) + obs.call.n
          /\ heap[ret.history] = obs.call.pre \o obs.call.reps

C1_Witness ==
    /\ Returned("tuple")
    /\ obs.call.n = 1
    /\ Len(obs.call.pre) = 1
    /\ obs.call.reps[1] # obs.call.pre[1]

\* C2: once an environment has completed a generation, its best-ever fitness
\* is the maximum of the representative fitness over all generations it ever
\* completed, and no step lowers it.
C2_BestIsMax ==
    \A e \in Envs :
        IF obs.maxRep[e] = Null THEN envs[e].best_ever = Null
        ELSE envs[e].best_ever = obs.maxRep[e]

C2_Monotone ==
    \A e \in Envs :
        envs[e].best_ever # Null =>
            /\ envs'[e].best_ever # Null
            /\ Get(envs'[e].best_ever) >= Get(envs[e].best_ever)

C2_BestEverIsRunningMax == [](C2_BestIsMax) /\ [][C2_Monotone]_vars

C2_Witness ==
    /\ Idle
    /\ History(Subject) = <<0, 0 - 1>>
    /\ envs[Subject].best_ever = Some(0)

C4_AfterRaise ==
    Returned("raise") =>
        /\ ret.exc = "NoIndividualsAtEndOfRun"
        /\ History(Subject) = obs.call.pre \o obs.call.reps
        /\ envs[Subject].best_ever = obs.call.bestAfter
        /\ obs.call.started = Len(obs.call.reps) + 1
        /\ obs.call.started <= obs.call.n

C4_RaiseStep ==
    (InEvolve("check") /\ Population(Top.env) = <<>>) =>
        /\ stack' = <<>>
        /\ ret'.kind = "raise"
        /\ heap' = heap
        /\ envs' = envs

C4_EmptyPopulationRaises == [](C4_AfterRaise) /\ [][C4_RaiseStep]_vars

C4_Witness ==
    /\ Returned("raise")
    /\ obs.call.n = 2
    /\ obs.call.started = 1

\* C7 as stated: after reset() in any state a following evolve(N) that does
\* not empty the population ends with a history of length N.
C7_ResetThenEvolveAlwaysN ==
    (Idle /\ obs.call.env = Subject /\ obs.call.fromReset /\ ret.kind # "raise") =>
        Len(History(Subject)) = obs.call.n

\* C7 amended: reset() leaves an empty population, an empty history and
\* iteration index zero; a following evolve(N) on an environment that is not
\* deactivated, and whose steps never empty the population, ends with a
\* history of length N.
C7_ResetThenEvolve ==
    /\ obs.last = "reset" =>
          /\ Population(Subject) = <<>>
          /\ History(Subject) = <<>>
          /\ envs[Subject].iteration = 0
    /\ (Returned("tuple") /\ obs.call.fromReset) =>
          Len(History(Subject)) = obs.call.n

C7_Witness ==
    /\ Returned("tuple")
    /\ obs.call.fromReset
    /\ obs.call.n = 2
    /\ obs.maxRep[Subject] = Some(1)
    /\ History(Subject) = <<0, 0 - 1>>

\* C5: an Adversarial.evolve(N), N >= 1, that returns has run every
\* sub-environment once, in list order, for N generations each, and returns
\* the (name, final fitness, duration) of the sub-environment whose final
\* history value is largest, the earliest-listed one among equals.
FinalFitness(e) == Last(History(e))

C5_AdversarialReturnsFirstBest ==
    (Idle /\ ret.kind = "result" /\ obs.last = "adversarial") =>
        /\ obs.sub.order = environments
        /\ \A e \in Envs : obs.sub.gens[e] = obs.sub.n
        /\ \E k \in 1 .. NumEnvs :
              LET w == environments[k] IN
              /\ ret.value = <<w, FinalFitness(w), obs.sub.dur[w]>>
              /\ \A j \in 1 .. NumEnvs : FinalFitness(environments[j]) <= FinalFitness(w)
              /\ \A j \in 1 .. (k - 1) : FinalFitness(environments[j]) < FinalFitness(w)

C5_Witness ==
    /\ Idle /\ ret.kind = "result" /\ obs.last = "adversarial"
    /\ FinalFitness(environments[1]) = 1
    /\ FinalFitness(environments[2]) = 1
    /\ obs.sub.dur[environments[1]] # obs.sub.dur[environments[2]]
    /\ ret.value[1] = environments[1]
    /\ obs.sub.gens[environments[2]] = 2

C6_FirstCall ==
    (Idle /\ ret.kind = "combined" /\ obs.sub.calls = 1) =>
        /\ Len(ret.history) = StageTotal(obs.sub.n)
        /\ ret.history = obs.sub.log

\* C8 as stated: compile on a composite completes without error whatever mix
\* of compiled and uncompiled sub-environments it holds; afterwards every
\* sub-environment is compiled, those that were not hold the composite's
\* fitness function, callback and reporting interval, and those that were
\* keep their configuration.
C8_CompilePropagates ==
    (obs.last = "compile_composite") =>
        /\ ret.kind # "raise"
        /\ \A e \in Envs :
              /\ envs[e].compiled
              /\ Get(obs.before)[e].compiled => envs[e] = Get(obs.before)[e]
              /\ ~Get(obs.before)[e].compiled =>
                    /\ envs[e].fitness_function = comp.fitness_function
                    /\ envs[e].callback = comp.callback
                    /\ envs[e].verbose_every = comp.verbose_every

\* C9: each turn of AdaptiveEnvironment.evolve hands the population and the
\* history of the environment active before to the selected environment,
\* makes it the active one and calls evolve(1) on it, which runs one
\* generation unless that environment is deactivated; so an evolve(N) that
\* returns with no pool member deactivated leaves the active environment with
\* the history the active environment had at the call, extended by the N
\* values of the N generations run, reselection or not.
AdaptiveTurnStep ==
    /\ InComp("adaptive", "loop")
    /\ stack' # <<>>
    /\ Len(stack') > Len(stack)

C9_TurnHandsOver ==
    AdaptiveTurnStep =>
        LET new == comp'.current_environment IN
        /\ new \in Envs
        /\ envs'[new].individuals = envs[comp.current_environment].individuals
        /\ envs'[new].history = envs[comp.current_environment].history
        /\ stack'[Len(stack')] = EvolveFrame(new, 1)

C9_AfterEvolve ==
    /\ (InComp("adaptive", "await") /\ \A e \in Envs : ~envs[e].deactivated) =>
          /\ Len(obs.sub.log) = Top.i + 1
          /\ History(comp.current_environment) = obs.sub.pre \o obs.sub.log
    /\ (Idle /\ ret.kind = "adaptive" /\ \A e \in Envs : ~envs[e].deactivated) =>
          /\ Len(obs.sub.log) = obs.sub.n
          /\ History(comp.current_environment)
                = obs.sub.pre \o obs.sub.log
          /\ Len(obs.sub.order) = obs.sub.n + 1

C11_DeactivatedInFlight ==
    obs.call.env = Subject /\ ~obs.call.wasDeactivated /\ envs[Subject].deactivated

C11_StepsCompleted ==
    C11_DeactivatedInFlight =>
        /\ History(Subject) = obs.call.pre \o obs.call.reps
        /\ envs[Subject].best_ever = obs.call.bestAfter
        /\ InEvolve("head") => Len(obs.call.reps) = Top.i
        /\ Returned("tuple") => /\ Len(obs.call.reps) = obs.call.n
                                /\ obs.call.started = obs.call.n
        /\ Idle => ret.kind \in {"tuple", "raise"}

C11_NoInterruption ==
    (stack # <<>> /\ Top.op = "evolve" /\ Top.phase # "entry"
        /\ envs[Top.env].deactivated /\ Len(stack') < Len(stack)) =>
        \/ Top.phase = "head" /\ Top.i = Top.n /\ ret'.kind = "tuple"
        \/ Top.phase = "check" /\ Population(Top.env) = <<>> /\ ret'.kind = "raise"

C11_OnlyLaterCallsAreNoOps ==
    (ret'.kind = "list" /\ ret.kind # "list") =>
        /\ InEvolve("entry")
        /\ envs[Top.env].deactivated
        /\ heap' = heap /\ envs' = envs

C11_DeactivateTakesEffectAtNextCall ==
    [](C11_StepsCompleted) /\ [][C11_NoInterruption /\ C11_OnlyLaterCallsAreNoOps]_vars

\* deactivated during the first of two steps: that step was recorded and the
\* second step has begun, none of its Stages having run yet
C11_Witness ==
    /\ InEvolve("layers")
    /\ Top.env = Subject /\ Top.n = 2 /\ Top.i = 1 /\ Top.j = 1
    /\ C11_DeactivatedInFlight
    /\ Len(obs.call.reps) = 1
    /\ envs[Subject].best_ever = Some(Last(obs.call.reps))

\* C12: a switch_environment() that completes has read the baseline from the
\* last candidate of the active environment's population before any trial,
\* has called evolve(go_for) on every pool member in pool order on that
\* population list (a member that is not deactivated running go_for
\* generations), and leaves active the member whose post-trial last-candidate
\* fitness minus the baseline is largest, the earliest in the pool among equals.
Switched == Idle /\ ret.kind = "switched"

TrialGain(k) == Last(obs.sub.trials[k].post) - Last(obs.sub.pre)

GenerationStarts ==
    /\ InEvolve("head")
    /\ stack' # <<>>
    /\ stack'[Len(stack')].phase = "layers"

C13_EveryStepIncrements ==
    [][GenerationStarts => envs'[Top.env].iteration = envs[Top.env].iteration + 1]_vars

\* C13 amended: a generation step sets the iteration index to the zero-based
\* position of the step within its evolve call, whatever the index was; so
\* after an evolve(N) with N >= 1 that returns the index is N - 1, evolve(0)
\* leaves it unchanged, and apart from the steps only reset() changes it,
\* to zero. It does not accumulate over calls.
C13_IndexWithinCall ==
    (obs.call.env = Subject /\ obs.call.started >= 1) =>
        /\ envs[Subject].iteration = obs.call.started - 1
        /\ Returned("tuple") => envs[Subject].iteration = obs.call.n - 1

C13_IndexChanges ==
    /\ GenerationStarts => envs'[Top.env].iteration = Top.i
    /\ \A e \in Envs :
          envs'[e].iteration # envs[e].iteration =>
              \/ GenerationStarts /\ Top.env = e
              \/ Idle /\ obs'.last = "reset" /\ envs'[e].iteration = 0

C13_IterationIsStepIndex == [](C13_IndexWithinCall) /\ [][C13_IndexChanges]_vars

\* a second evolve(1) after a first generation: two generations, index zero
C13_Witness ==
    /\ Returned("tuple")
    /\ obs.call.n = 1
    /\ Len(obs.call.pre) = 1
    /\ Len(History(Subject)) = 2
    /\ envs[Subject].iteration = 0

\* C14: in AdaptiveEnvironment.evolve every outer iteration raises the
\* composite's iteration counter and generation counter by one; the active
\* environment changes only in an iteration whose raised counter is a multiple
\* of switch_every, and then to a member of the pool; in every other iteration,
\* and in every other step, it stays what it was.
C14_Turn ==
    AdaptiveTurnStep =>
        /\ comp'.iteration = comp.iteration + 1
        /\ comp'.current_generation = comp.current_generation + 1
        /\ comp'.iteration % comp.switch_every # 0 =>
               comp'.current_environment = comp.current_environment

C14_Change ==
    comp'.current_environment # comp.current_environment =>
        /\ AdaptiveTurnStep
        /\ comp'.iteration % comp.switch_every = 0
        /\ \E k \in 1 .. NumEnvs : comp'.current_environment = environments[k]

SelectionStep ==
    /\ InComp("adaptive", "loop")
    /\ comp'.iteration = comp.iteration + 1

C15_Deactivates ==
    SelectionStep =>
        \A e \in Envs :
            envs'[e].deactivated <=> (envs[e].deactivated \/ e \in obs'.sub.weak)

C15_InertTurn ==
    (AdaptiveTurnStep /\ envs'[comp'.current_environment].deactivated) =>
        /\ heap'[envs'[comp'.current_environment].individuals] = Population(comp.current_environment)
        /\ heap'[envs'[comp'.current_environment].history] = History(comp.current_environment)

C15_InertEvolve ==
    (InEvolve("entry") /\ stack[1].op = "adaptive" /\ envs[Top.env].deactivated) =>
        /\ stack' = Pop(stack)
        /\ heap' = heap /\ envs' = envs /\ obs' = obs

C15_InertAfter ==
    (InComp("adaptive", "await") /\ ret.kind = "list") =>
        /\ envs[comp.current_environment].deactivated
        /\ heap'[envs'[comp'.current_environment].individuals] = Population(comp.current_environment)
        /\ heap'[envs'[comp'.current_environment].history] = History(comp.current_environment)
        /\ obs'.sub.log = obs.sub.log

StageConsumed ==
    /\ InComp("chronological", "await")
    /\ ret.kind = "tuple"

StageEnv(k) == comp.environments_and_generations[k][1]

C16_Consume ==
    StageConsumed =>
        LET e == StageEnv(Top.k)
            g == GenerationsHere(comp.environments_and_generations[Top.k], Top.n)
        IN /\ heap'[envs'[e].history] = <<>>
           /\ comp'.combined_history = comp.combined_history \o heap[ret.history]
           /\ (\E j \in 1 .. (Top.k - 1) : StageEnv(j) = e) =>
                  /\ Len(heap[ret.history]) = g
                  /\ Len(comp'.combined_history) = Len(comp.combined_history) + g
                  /\ heap[ret.history] = SubSeq(obs.sub.log, Len(obs.sub.log) - g + 1,
                                                Len(obs.sub.log))

C16_EmptyAfterStage ==
    (InComp("chronological", "loop") /\ Top.k > 1) => History(StageEnv(Top.k - 1)) = <<>>

StageInvoked ==
    /\ InComp("chronological", "loop")
    /\ Len(stack') > Len(stack)

C18_Handed ==
    StageInvoked =>
        /\ envs'[StageEnv(Top.k)].individuals = comp.individuals
        /\ heap'[comp.individuals] = heap[comp.individuals]

C18_Doubled ==
    StageConsumed =>
        LET population == heap[ret.individuals] IN
        /\ ret.individuals = comp.individuals
        /\ envs[StageEnv(Top.k)].individuals = comp.individuals
        /\ comp'.individuals = comp.individuals
        /\ heap'[comp.individuals] = population \o population
        /\ Len(heap'[comp.individuals]) = 2 * Len(population)

CallbackRuns(e) == IF envs[e].callback # None THEN 1 ELSE 0

\* Stage and callback invocations of the observed call before the current step
RanBeforeStep == (obs.call.started - 1) * (NumLayers + CallbackRuns(Subject))

C17_Counts ==
    (obs.call.env = Subject /\ stack # <<>>) =>
        /\ InEvolve("layers") => /\ Top.j \in 1 .. NumLayers
                                 /\ obs.call.ran = RanBeforeStep + Top.j - 1
        /\ InEvolve("callback") => obs.call.ran = RanBeforeStep + NumLayers
        /\ InEvolve("check") => obs.call.ran = RanBeforeStep + NumLayers + CallbackRuns(Subject)

C17_Order ==
    /\ InEvolve("layers") =>
          /\ obs'.call.ran = obs.call.ran + 1
          /\ heap'[envs[Top.env].individuals] \in Pops
          /\ IF Top.j < NumLayers
             THEN InEvolve("layers")' /\ stack'[Len(stack')].j = Top.j + 1
             ELSE InEvolve("callback")'
    /\ InEvolve("callback") =>
          /\ InEvolve("check")'
          /\ obs'.call.ran = obs.call.ran + CallbackRuns(Top.env)
    /\ InEvolve("check") =>
          IF Population(Top.env) = <<>>
          THEN ret'.kind = "raise" /\ envs' = envs /\ heap' = heap
          ELSE /\ InEvolve("head")'
               /\ heap'[envs[Top.env].history] = Append(History(Top.env), Last(Population(Top.env)))
    /\ (InEvolve("layers") \/ InEvolve("callback")) =>
          /\ envs'[Top.env].best_ever = envs[Top.env].best_ever
          /\ heap'[envs[Top.env].history] = History(Top.env)

C17_StepOrder == [](C17_Counts) /\ [][C17_Order]_vars

\* a second step ran every Stage and then the callback before it raised on the
\* empty population
C17_Witness ==
    /\ Returned("raise")
    /\ envs[Subject].callback # None
    /\ obs.call.n = 2
    /\ obs.call.started = 2
    /\ obs.call.ran = 2 * (NumLayers + 1)
    /\ Len(obs.call.reps) = 1

\* C20: reset() leaves the best-ever snapshot, the deactivated flag, the
\* compiled flag and the rest of the configuration as they were, so
\* get_fitness_metric() returns right after reset what it returned right
\* before, the best over the generations run before the reset; and a
\* generation run afterwards replaces the best-ever only with a strictly
\* greater representative fitness.
ResetStep == Idle /\ stack' = <<>> /\ obs'.last = "reset"

C20_Frame ==
    ResetStep =>
        /\ envs'[Subject].best_ever = envs[Subject].best_ever
        /\ envs'[Subject].deactivated = envs[Subject].deactivated
        /\ envs'[Subject].compiled = envs[Subject].compiled
        /\ envs'[Subject].callback = envs[Subject].callback
        /\ envs'[Subject].fitness_function = envs[Subject].fitness_function
        /\ get_fitness_metric(Subject)' = get_fitness_metric(Subject)

C20_Replace ==
    (InEvolve("check") /\ envs'[Top.env].best_ever # envs[Top.env].best_ever) =>
        /\ Population(Top.env) # <<>>
        /\ envs'[Top.env].best_ever = Some(Last(Population(Top.env)))
        /\ envs[Top.env].best_ever # Null =>
               Last(Population(Top.env)) > Get(envs[Top.env].best_ever)

C20_MetricAfterReset ==
    (obs.last = "reset" \/ (obs.call.env = Subject /\ obs.call.fromReset)) =>
        get_fitness_metric(Subject) =
            IF obs.maxRep[Subject] = Null THEN 0 ELSE Get(obs.maxRep[Subject])

C20_ResetKeepsBestEver == [](C20_MetricAfterReset) /\ [][C20_Frame /\ C20_Replace]_vars

\* a generation with representative fitness 0 ran after the reset and the
\* best-ever of before the reset, 1, is still the metric
C20_Witness ==
    /\ Returned("tuple")
    /\ obs.call.fromReset
    /\ History(Subject) = <<0>>
    /\ envs[Subject].best_ever = Some(1)
    /\ get_fitness_metric(Subject) = 1
    /\ envs[Subject].compiled

====
